---- MODULE Spec2Model ----
(***************************************************************************)
(* Model of the delta firmware update sample (app/src/main.c).             *)
(*                                                                         *)
(* main() runs delta_apply_init() then delta_apply_algo() then reboots.    *)
(* While the backend's patch entry point runs, it calls back into the four *)
(* memory primitives delta_mem_read / write / erase / seek and selects the *)
(* flash slot through the field memory.flash.slot of the shared context.   *)
(* The Zephyr services (flash_area_*, flash_img_*, boot_request_upgrade,   *)
(* delta_apply_patch_init, backend.patch) are the environment: each of     *)
(* their return values is a nondeterministic input.                        *)
(***************************************************************************)
EXTENDS Integers, Sequences, FiniteSets, TLC

(* ---- bounds ---- *)
MaxOffset == 1      \* cursor values the backend may seek to are 0..MaxOffset
MaxSize == 2        \* sizes passed to read / write / erase are 1..MaxSize
MaxOpen == 1        \* handles the component may hold open at once before the model stops leaking more

(* ---- program constants ---- *)
ENODEV == 19
EINVAL == 22
EIO == 5

SLOT_0 == "SOURCE"              \* slot of the running firmware
PATCH == "PATCH"                \* slot holding the patch data
DESTINATION == "DESTINATION"    \* slot the new firmware is written to
Slots == {SLOT_0, PATCH, DESTINATION}
NoArea == "NONE"                \* no slot / no flash area

BOOT_UPGRADE_PERMANENT == "BOOT_UPGRADE_PERMANENT"
BOOT_UPGRADE_TEST == "BOOT_UPGRADE_TEST"
SYS_REBOOT_COLD == "SYS_REBOOT_COLD"

\* nonzero results the external services may report
ExtErrs == {-EIO, -EINVAL}
ExtRets == {0} \cup ExtErrs

Offsets == 0..MaxOffset
Sizes == 1..MaxSize

\* what the flash read / erase can return after flash_area_open returned o:
\* it is only called when the open succeeded
IoRets(o) == IF o = 0 THEN ExtRets ELSE {0}

VARIABLES
    pc,           \* position of main()
    ret,          \* main's local `ret`; its exit status once pc = "returned"
    slot,         \* memory.flash.slot
    source,       \* memory.offset.source
    patch,        \* memory.offset.patch
    img_ctx,      \* memory.flash.img_ctx: state of the buffered writer
    handles,      \* flash area handles currently open (opens minus closes)
    flash,        \* what each flash area holds: its image, erased, or newly programmed
    calls,        \* external calls made by the orchestrator, in order
    rets,         \* their return values, in order
    call,         \* the last primitive call and what it did underneath
    last_seek     \* arguments of the most recent seek call, <<>> before the first

vars == <<pc, ret, slot, source, patch, img_ctx, handles, flash, calls, rets,
          call, last_seek>>

mem == <<slot, source, patch, img_ctx, handles, flash, call>>

\* op: the primitive; slot: the slot selected when a read / erase was called;
\* size: the size a read was called with; ret: its result; openRet: what
\* flash_area_open returned; opens / closes: successful opens and closes it
\* made; io / ioArea / ioRet: the flash operation it issued, ioOffset: the
\* offset a flash read was issued at; before: the two cursors on entry;
\* buf: the bytes a read copied into buf_p; again: the read repeats the
\* call before it
NoCall == [op |-> "none", slot |-> NoArea, size |-> 0, ret |-> 0,
           openRet |-> 0, opens |-> 0, closes |-> 0,
           io |-> "none", ioArea |-> NoArea, ioOffset |-> 0, ioRet |-> 0,
           before |-> <<>>, buf |-> <<>>, again |-> FALSE]

\* a successful read with this selector and size directly follows a
\* successful read with the same selector and size
Reread(s, size) ==
    /\ call.op = "read"
    /\ call.ret = 0
    /\ call.slot = s
    /\ call.size = size

\* every area is AreaSize bytes long and is one erase unit: the cursors
\* 0..MaxOffset all point into it
AreaSize == MaxOffset + 1

\* the backend passes erase-unit-aligned offsets to erase
EraseOffsets == {o \in Offsets : o % AreaSize = 0}

\* the flash driver rejects a range that does not lie inside the area
InBounds(offset, size) == offset + size <= AreaSize

\* the byte at offset i of area a when the area is in state st
FlashByte(a, st, i) ==
    IF st = "erased" THEN 255
    ELSE IF st = "programmed" THEN 64 + i
    ELSE IF a = SLOT_0 THEN i
    ELSE IF a = PATCH THEN 16 + i
    ELSE 32 + i

\* flash_area_read: the size bytes of area a starting at offset
flash_area_read(a, offset, size) ==
    [i \in 1..size |-> FlashByte(a, flash[a], offset + i - 1)]

Invoke(fn, arg) == [fn |-> fn, arg |-> arg]

(* ---- the four primitives ---- *)

\* read_offset with the two cursors exchanged
read_offset_swapped(s, src, pat) == IF s = SLOT_0 THEN pat ELSE src

\* lines 33-37: the cursor a read uses
read_offset(s, src, pat) == IF s = SLOT_0 THEN src ELSE pat

\* delta_mem_read without the early return on a failed open
delta_mem_read_open_unchecked(size, openRet, readRet) ==
    LET offset == read_offset(slot, source, patch) IN
    /\ call' = [NoCall EXCEPT !.op = "read", !.slot = slot, !.size = size,
                                   !.before = <<source, patch>>,
                              !.ret = IF readRet # 0 THEN -EINVAL ELSE readRet,
                              !.openRet = openRet,
                              !.opens = IF openRet = 0 THEN 1 ELSE 0,
                              !.closes = IF readRet = 0 THEN 1 ELSE 0,
                              !.io = "read", !.ioArea = slot, !.ioOffset = offset,
                              !.ioRet = readRet]
    /\ UNCHANGED <<slot, source, patch, img_ctx, handles, flash>>

\* delta_mem_read that advances the cursor it used past the bytes it read
delta_mem_read_advancing(size, openRet, readRet) ==
    LET offset == read_offset(slot, source, patch) IN
    IF openRet # 0
    THEN /\ call' = [NoCall EXCEPT !.op = "read", !.slot = slot, !.size = size,
                                   !.before = <<source, patch>>,
                                   !.ret = -ENODEV, !.openRet = openRet]
         /\ UNCHANGED <<slot, source, patch, img_ctx, handles, flash>>
    ELSE IF readRet # 0
    THEN /\ handles < MaxOpen
         /\ handles' = handles + 1
         /\ call' = [NoCall EXCEPT !.op = "read", !.slot = slot, !.size = size,
                                   !.before = <<source, patch>>,
                                   !.ret = -EINVAL, !.opens = 1,
                                   !.io = "read", !.ioArea = slot, !.ioOffset = offset,
                                   !.ioRet = readRet]
         /\ UNCHANGED <<slot, source, patch, img_ctx, flash>>
    ELSE /\ InBounds(offset, size)
         /\ call' = [NoCall EXCEPT !.op = "read", !.slot = slot, !.size = size,
                                   !.before = <<source, patch>>,
                                   !.ret = readRet, !.opens = 1, !.closes = 1,
                                   !.io = "read", !.ioArea = slot, !.ioOffset = offset,
                                   !.buf = flash_area_read(slot, offset, size),
                                   !.again = Reread(slot, size)]
         /\ source' = IF slot = SLOT_0 THEN source + size ELSE source
         /\ patch' = IF slot = SLOT_0 THEN patch ELSE patch + size
         /\ UNCHANGED <<slot, img_ctx, handles, flash>>

\* lines 29-53
delta_mem_read(size, openRet, readRet) ==
    LET offset == read_offset(slot, source, patch) IN
    IF openRet # 0
    THEN /\ call' = [NoCall EXCEPT !.op = "read", !.slot = slot, !.size = size,
                                   !.before = <<source, patch>>,
                                   !.ret = -ENODEV, !.openRet = openRet]
         /\ UNCHANGED <<slot, source, patch, img_ctx, handles, flash>>
    ELSE IF readRet # 0
    THEN /\ handles < MaxOpen
         /\ handles' = handles + 1
         /\ call' = [NoCall EXCEPT !.op = "read", !.slot = slot, !.size = size,
                                   !.before = <<source, patch>>,
                                   !.ret = -EINVAL, !.opens = 1,
                                   !.io = "read", !.ioArea = slot, !.ioOffset = offset,
                                   !.ioRet = readRet]
         /\ UNCHANGED <<slot, source, patch, img_ctx, flash>>
    ELSE /\ InBounds(offset, size)
         /\ call' = [NoCall EXCEPT !.op = "read", !.slot = slot, !.size = size,
                                   !.before = <<source, patch>>,
                                   !.ret = readRet, !.opens = 1, !.closes = 1,
                                   !.io = "read", !.ioArea = slot, !.ioOffset = offset,
                                   !.buf = flash_area_read(slot, offset, size),
                                   !.again = Reread(slot, size)]
         /\ UNCHANGED <<slot, source, patch, img_ctx, handles, flash>>

\* delta_mem_write that opens and closes the destination area around the write
delta_mem_write_reopening(size, flush, writeRet) ==
    /\ img_ctx' = IF writeRet = 0 THEN "written" ELSE img_ctx
    /\ call' = [NoCall EXCEPT !.op = "write",
                              !.before = <<source, patch>>,
                              !.ret = IF writeRet # 0 THEN -EINVAL ELSE writeRet,
                              !.opens = 1, !.closes = 1,
                              !.io = "write", !.ioArea = DESTINATION, !.ioRet = writeRet]
    /\ flash' = IF writeRet = 0 /\ flush
                THEN [flash EXCEPT ![DESTINATION] = "programmed"]
                ELSE flash
    /\ UNCHANGED <<slot, source, patch, handles>>

\* delta_mem_write that hands the writer's own error code back
delta_mem_write_passthrough(size, flush, writeRet) ==
    /\ img_ctx' = IF writeRet = 0 THEN "written" ELSE img_ctx
    /\ call' = [NoCall EXCEPT !.op = "write",
                              !.before = <<source, patch>>,
                              !.ret = writeRet,
                              !.io = "write", !.ioArea = DESTINATION, !.ioRet = writeRet]
    /\ flash' = IF writeRet = 0 /\ flush
                THEN [flash EXCEPT ![DESTINATION] = "programmed"]
                ELSE flash
    /\ UNCHANGED <<slot, source, patch, handles>>

\* lines 64-74
delta_mem_write(size, flush, writeRet) ==
    /\ img_ctx' = IF writeRet = 0 THEN "written" ELSE img_ctx
    /\ call' = [NoCall EXCEPT !.op = "write",
                              !.before = <<source, patch>>,
                              !.ret = IF writeRet # 0 THEN -EINVAL ELSE writeRet,
                              !.io = "write", !.ioArea = DESTINATION, !.ioRet = writeRet]
    /\ flash' = IF writeRet = 0 /\ flush
                THEN [flash EXCEPT ![DESTINATION] = "programmed"]
                ELSE flash
    /\ UNCHANGED <<slot, source, patch, handles>>

\* lines 84-101
delta_mem_erase(offset, size, openRet, eraseRet) ==
    IF openRet # 0
    THEN /\ call' = [NoCall EXCEPT !.op = "erase", !.slot = slot,
                                   !.before = <<source, patch>>,
                                   !.ret = -ENODEV, !.openRet = openRet]
         /\ UNCHANGED <<slot, source, patch, img_ctx, handles, flash>>
    ELSE IF eraseRet # 0
    THEN /\ handles < MaxOpen
         /\ handles' = handles + 1
         /\ call' = [NoCall EXCEPT !.op = "erase", !.slot = slot,
                                   !.before = <<source, patch>>,
                                   !.ret = -EINVAL, !.opens = 1,
                                   !.io = "erase", !.ioArea = slot,
                                   !.ioRet = eraseRet]
         /\ UNCHANGED <<slot, source, patch, img_ctx, flash>>
    ELSE /\ InBounds(offset, size)
         /\ call' = [NoCall EXCEPT !.op = "erase", !.slot = slot,
                                   !.before = <<source, patch>>,
                                   !.ret = eraseRet, !.opens = 1, !.closes = 1,
                                   !.io = "erase", !.ioArea = slot]
         /\ flash' = [flash EXCEPT ![slot] = "erased"]
         /\ UNCHANGED <<slot, source, patch, img_ctx, handles>>

\* delta_mem_seek that only ever moves a cursor forward
delta_mem_seek_forward_only(source_offset, patch_offset) ==
    /\ source' = IF source_offset > source THEN source_offset ELSE source
    /\ patch' = IF patch_offset > patch THEN patch_offset ELSE patch
    /\ call' = [NoCall EXCEPT !.op = "seek", !.ret = 0,
                              !.before = <<source, patch>>]
    /\ UNCHANGED <<slot, img_ctx, handles, flash>>

\* delta_mem_seek with its two arguments stored in each other's field
delta_mem_seek_swapped(source_offset, patch_offset) ==
    /\ source' = patch_offset
    /\ patch' = source_offset
    /\ call' = [NoCall EXCEPT !.op = "seek", !.ret = 0,
                              !.before = <<source, patch>>]
    /\ UNCHANGED <<slot, img_ctx, handles, flash>>

\* lines 111-116
delta_mem_seek(source_offset, patch_offset) ==
    /\ source' = source_offset
    /\ patch' = patch_offset
    /\ call' = [NoCall EXCEPT !.op = "seek", !.ret = 0,
                              !.before = <<source, patch>>]
    /\ UNCHANGED <<slot, img_ctx, handles, flash>>

(* ---- delta_apply_init ---- *)

\* InitFlashImg that goes on to registration whatever flash_img_init returned
InitFlashImg_unchecked(r) ==
    /\ pc = "init_img"
    /\ calls' = Append(calls, Invoke("flash_img_init", ""))
    /\ rets' = Append(rets, r)
    /\ ret' = r
    /\ img_ctx' = IF r = 0 THEN "ready" ELSE img_ctx
    /\ pc' = "init_patch"
    /\ UNCHANGED <<slot, source, patch, handles, flash, call, last_seek>>

\* lines 155-160: flash_img_init, abort on a nonzero result
InitFlashImg(r) ==
    /\ pc = "init_img"
    /\ calls' = Append(calls, Invoke("flash_img_init", ""))
    /\ rets' = Append(rets, r)
    /\ ret' = r
    /\ img_ctx' = IF r = 0 THEN "ready" ELSE img_ctx
    /\ pc' = IF r # 0 THEN "returned" ELSE "init_patch"
    /\ UNCHANGED <<slot, source, patch, handles, flash, call, last_seek>>

\* InitCallbacks that goes on to the cursor reset whatever registration returned
InitCallbacks_unchecked(r) ==
    /\ pc = "init_patch"
    /\ calls' = Append(calls, Invoke("delta_apply_patch_init", ""))
    /\ rets' = Append(rets, r)
    /\ ret' = r
    /\ pc' = "init_seek"
    /\ UNCHANGED <<mem, last_seek>>

\* lines 162-171: delta_apply_patch_init registers the four callbacks
InitCallbacks(r) ==
    /\ pc = "init_patch"
    /\ calls' = Append(calls, Invoke("delta_apply_patch_init", ""))
    /\ rets' = Append(rets, r)
    /\ ret' = r
    /\ pc' = IF r # 0 THEN "returned" ELSE "init_seek"
    /\ UNCHANGED <<mem, last_seek>>

\* InitSeek that leaves the cursors as they are
InitSeek_skipped ==
    /\ pc = "init_seek"
    /\ calls' = Append(calls, Invoke("seek", "0,0"))
    /\ rets' = Append(rets, 0)
    /\ ret' = 0
    /\ pc' = "algo_patch"
    /\ call' = [NoCall EXCEPT !.op = "seek", !.ret = 0, !.before = <<source, patch>>]
    /\ last_seek' = <<0, 0>>
    /\ UNCHANGED <<slot, source, patch, img_ctx, handles, flash>>

\* lines 173-180: seek(0, 0) through the registered seek callback
InitSeek ==
    /\ pc = "init_seek"
    /\ delta_mem_seek(0, 0)
    /\ last_seek' = <<0, 0>>
    /\ calls' = Append(calls, Invoke("seek", "0,0"))
    /\ rets' = Append(rets, 0)
    /\ ret' = 0
    /\ pc' = "algo_patch"

(* ---- delta_apply_algo ---- *)

\* line 130: control enters the backend's patch entry point
PatchCall ==
    /\ pc = "algo_patch"
    /\ calls' = Append(calls, Invoke("patch", ""))
    /\ pc' = "in_patch"
    /\ UNCHANGED <<ret, rets>>
    /\ UNCHANGED <<mem, last_seek>>

\* the backend selects the slot the next read / erase works on
BackendSelect(s) ==
    /\ pc = "in_patch"
    /\ slot' = s
    /\ UNCHANGED <<pc, ret, source, patch, img_ctx, handles, flash, calls, rets,
                   call, last_seek>>

BackendRead(size, openRet, readRet) ==
    /\ pc = "in_patch"
    /\ delta_mem_read(size, openRet, readRet)
    /\ UNCHANGED <<pc, ret, calls, rets, last_seek>>

BackendWrite(size, flush, writeRet) ==
    /\ pc = "in_patch"
    /\ delta_mem_write(size, flush, writeRet)
    /\ UNCHANGED <<pc, ret, calls, rets, last_seek>>

BackendErase(offset, size, openRet, eraseRet) ==
    /\ pc = "in_patch"
    /\ delta_mem_erase(offset, size, openRet, eraseRet)
    /\ UNCHANGED <<pc, ret, calls, rets, last_seek>>

BackendSeek(s, p) ==
    /\ pc = "in_patch"
    /\ delta_mem_seek(s, p)
    /\ last_seek' = <<s, p>>
    /\ UNCHANGED <<pc, ret, calls, rets>>

\* PatchReturn that goes on to the upgrade request whatever patch returned
PatchReturn_unchecked(r) ==
    /\ pc = "in_patch"
    /\ rets' = Append(rets, r)
    /\ ret' = r
    /\ pc' = "algo_boot"
    /\ UNCHANGED calls
    /\ UNCHANGED <<mem, last_seek>>

\* lines 130-134: patch returns, abort on a nonzero result
PatchReturn(r) ==
    /\ pc = "in_patch"
    /\ rets' = Append(rets, r)
    /\ ret' = r
    /\ pc' = IF r # 0 THEN "returned" ELSE "algo_boot"
    /\ UNCHANGED calls
    /\ UNCHANGED <<mem, last_seek>>

\* RequestUpgrade that asks for a test upgrade instead of a permanent one
RequestUpgrade_test(r) ==
    /\ pc = "algo_boot"
    /\ calls' = Append(calls, Invoke("boot_request_upgrade", BOOT_UPGRADE_TEST))
    /\ rets' = Append(rets, r)
    /\ ret' = r
    /\ pc' = IF r # 0 THEN "returned" ELSE "reboot"
    /\ UNCHANGED <<mem, last_seek>>

\* RequestUpgrade that asks the bootloader again for as long as it refuses
RequestUpgrade_retry(r) ==
    /\ pc = "algo_boot"
    /\ ret' = r
    /\ IF r # 0
       THEN UNCHANGED <<pc, calls, rets>>
       ELSE /\ calls' = Append(calls, Invoke("boot_request_upgrade", BOOT_UPGRADE_PERMANENT))
            /\ rets' = Append(rets, r)
            /\ pc' = "reboot"
    /\ UNCHANGED <<mem, last_seek>>

\* RequestUpgrade that goes on to the reboot whatever the bootloader returned
RequestUpgrade_unchecked(r) ==
    /\ pc = "algo_boot"
    /\ calls' = Append(calls, Invoke("boot_request_upgrade", BOOT_UPGRADE_PERMANENT))
    /\ rets' = Append(rets, r)
    /\ ret' = r
    /\ pc' = "reboot"
    /\ UNCHANGED <<mem, last_seek>>

\* lines 136-142: boot_request_upgrade(BOOT_UPGRADE_PERMANENT)
RequestUpgrade(r) ==
    /\ pc = "algo_boot"
    /\ calls' = Append(calls, Invoke("boot_request_upgrade", BOOT_UPGRADE_PERMANENT))
    /\ rets' = Append(rets, r)
    /\ ret' = r
    /\ pc' = IF r # 0 THEN "returned" ELSE "reboot"
    /\ UNCHANGED <<mem, last_seek>>

\* line 209: sys_reboot(SYS_REBOOT_COLD) does not return
Reboot ==
    /\ pc = "reboot"
    /\ calls' = Append(calls, Invoke("sys_reboot", SYS_REBOOT_COLD))
    /\ pc' = "rebooted"
    /\ UNCHANGED <<ret, rets>>
    /\ UNCHANGED <<mem, last_seek>>

(* ---- specification ---- *)

\* main's locals are uninitialised stack memory until first assigned.
\* memory.flash.flash_area is set by flash_area_open and used only inside the
\* call that opened it, so it lives in the call record (ioArea), not in a variable
Init ==
    /\ pc = "init_img"
    /\ ret \in ExtRets
    /\ slot \in Slots
    /\ source \in Offsets
    /\ patch \in Offsets
    /\ img_ctx = "uninit"
    /\ handles = 0
    /\ flash = [a \in Slots |-> "image"]
    /\ calls = <<>>
    /\ rets = <<>>
    /\ call = NoCall
    /\ last_seek = <<>>

Next ==
    \/ \E r \in ExtRets : InitFlashImg(r)
    \/ \E r \in ExtRets : InitCallbacks(r)
    \/ InitSeek
    \/ PatchCall
    \/ \E s \in Slots : BackendSelect(s)
    \/ \E n \in Sizes, o \in ExtRets : \E r \in IoRets(o) : BackendRead(n, o, r)
    \/ \E n \in Sizes, f \in BOOLEAN, r \in ExtRets : BackendWrite(n, f, r)
    \/ \E off \in EraseOffsets, n \in Sizes, o \in ExtRets :
          \E r \in IoRets(o) : BackendErase(off, n, o, r)
    \/ \E s \in Offsets, p \in Offsets : BackendSeek(s, p)
    \/ \E r \in ExtRets : PatchReturn(r)
    \/ \E r \in ExtRets : RequestUpgrade(r)
    \/ Reboot

Spec == Init /\ [][Next]_vars

\* the steps of main, delta_apply_init and delta_apply_algo themselves
Progress ==
    \/ \E r \in ExtRets : InitFlashImg(r)
    \/ \E r \in ExtRets : InitCallbacks(r)
    \/ InitSeek
    \/ PatchCall
    \/ \E r \in ExtRets : PatchReturn(r)
    \/ \E r \in ExtRets : RequestUpgrade(r)
    \/ Reboot

\* main is sequential code: whenever its next step can run it does, and
\* every external call, the backend's patch included, returns
FairSpec == Init /\ [][Next]_vars /\ WF_vars(Progress)

TypeOK ==
    /\ pc \in {"init_img", "init_patch", "init_seek", "algo_patch", "in_patch",
               "algo_boot", "reboot", "rebooted", "returned"}
    /\ ret \in ExtRets
    /\ slot \in Slots
    /\ source \in Offsets /\ patch \in Offsets
    /\ img_ctx \in {"uninit", "ready", "written"}
    /\ handles \in 0..MaxOpen
    /\ flash \in [Slots -> {"image", "erased", "programmed"}]
    /\ Len(calls) <= 6 /\ Len(rets) <= Len(calls)

(* ---- helpers for the properties ---- *)

Order == <<"flash_img_init", "delta_apply_patch_init", "seek", "patch",
           "boot_request_upgrade", "sys_reboot">>

\* number of times the orchestrator invoked fn
Count(fn) == Cardinality({i \in 1..Len(calls) : calls[i].fn = fn})

\* fn was invoked and returned a nonzero result
Failed(fn) == \E i \in 1..Len(rets) : calls[i].fn = fn /\ rets[i] # 0

\* the last primitive call was a read / erase whose flash_area_open failed
OpenFailed == call.op \in {"read", "erase"} /\ call.openRet # 0

(* ---- properties ---- *)

\* C1: every call of delta_mem_read closes what it opened, whatever its
\* outcome: when the call returns, its successful opens equal its closes.
ReadClosesOnEveryPath ==
    call.op = "read" => call.opens = call.closes

\* C2: every call of delta_mem_erase closes what it opened, whatever its
\* outcome: when the call returns, its successful opens equal its closes.
EraseClosesOnEveryPath ==
    call.op = "erase" => call.opens = call.closes

\* C3: a read or erase whose slot cannot be opened returns -ENODEV, issues no
\* flash read or erase, and leaves no open handle behind.
OpenFailureIsDeviceUnavailable ==
    OpenFailed => /\ call.ret = -ENODEV
                  /\ call.io = "none"
                  /\ call.opens = 0
                  /\ call.closes = 0

OpenFailureSeen ==
    /\ OpenFailed
    /\ call.op = "read"
    /\ call.ret = -ENODEV

\* C4: when the backend's patch entry point returns nonzero, the attempt ends
\* in failure: main has returned a nonzero status and neither
\* boot_request_upgrade nor sys_reboot was called.
PatchFailureAborts ==
    Failed("patch") => /\ pc = "returned"
                       /\ ret # 0
                       /\ Count("boot_request_upgrade") = 0
                       /\ Count("sys_reboot") = 0

PatchFailedMidWrite ==
    /\ Failed("patch")
    /\ img_ctx = "written"
    /\ pc = "returned"

\* C5: when flash_img_init fails, nothing later is invoked: no registration,
\* no seek(0,0), no patch, no upgrade request, no reboot.
ImgInitFailureAborts ==
    Failed("flash_img_init") => /\ Len(calls) = 1
                                /\ pc = "returned"
                                /\ last_seek = <<>>
                                /\ call.op = "none"

ImgInitFailed ==
    /\ Failed("flash_img_init")
    /\ pc = "returned"

\* C6: after seek(s, p) a read selecting SOURCE issues the flash read at
\* offset s and a read selecting PATCH issues it at offset p.
ReadUsesOwnCursor ==
    (call.op = "read" /\ call.io = "read" /\ last_seek # <<>>) =>
        /\ call.slot = SLOT_0 => call.ioOffset = last_seek[1]
        /\ call.slot = PATCH => call.ioOffset = last_seek[2]

ReadAfterSeekSeen ==
    /\ call.op = "read"
    /\ call.io = "read"
    /\ call.slot = PATCH
    /\ last_seek = <<1, 0>>

\* C7: an erase call opens and erases the DESTINATION slot, never the SOURCE
\* or PATCH slot, whatever slot the backend last selected.
EraseTargetsDestination ==
    (call.op = "erase" /\ call.openRet = 0) =>
        /\ call.ioArea = DESTINATION
        /\ call.io = "erase"

\* C8: a read call opens and reads the SOURCE or the PATCH slot, never the
\* DESTINATION slot.
ReadNeverTouchesDestination ==
    call.op = "read" => /\ call.slot \in {SLOT_0, PATCH}
                        /\ call.ioArea # DESTINATION

\* C9: patch and boot_request_upgrade are each invoked at most once in any
\* attempt, and exactly once, the latter with mode PERMANENT, in an attempt
\* that succeeds.
OncePerAttempt ==
    /\ Count("patch") <= 1
    /\ Count("boot_request_upgrade") <= 1
    /\ pc \in {"reboot", "rebooted"} =>
          /\ Count("patch") = 1
          /\ Count("boot_request_upgrade") = 1
          /\ \A i \in 1..Len(calls) :
                calls[i].fn = "boot_request_upgrade" =>
                    calls[i].arg = BOOT_UPGRADE_PERMANENT

AttemptSucceeded ==
    /\ pc = "reboot"
    /\ Count("boot_request_upgrade") = 1

\* C10: the orchestrator's external calls occur in the order writer init,
\* registration, seek(0,0), patch, request upgrade, cold reboot, and each is
\* made only after every earlier one returned success.
StagesInOrder ==
    \A i \in 1..Len(calls) :
        /\ i <= Len(Order)
        /\ calls[i].fn = Order[i]
        /\ \A j \in 1..(i - 1) : j <= Len(rets) /\ rets[j] = 0

RebootAfterAllStages ==
    /\ pc = "rebooted"
    /\ Len(calls) = 6
    /\ calls[6].fn = "sys_reboot"

\* every stage up to and including boot_request_upgrade returned 0
AllStagesSucceeded ==
    /\ Len(rets) = 5
    /\ \A i \in 1..5 : rets[i] = 0

\* C11: when boot_request_upgrade returns nonzero, main returns a nonzero
\* status and sys_reboot is never called; main returns nonzero whenever it
\* returns, and reaches the reboot exactly when every stage succeeded.
BootFailureAborts ==
    /\ Failed("boot_request_upgrade") => /\ pc = "returned"
                                         /\ ret # 0
                                         /\ Count("sys_reboot") = 0
    /\ pc = "returned" => ret # 0 /\ ~AllStagesSucceeded
    /\ pc \in {"reboot", "rebooted"} <=> AllStagesSucceeded
    /\ Count("sys_reboot") > 0 => AllStagesSucceeded

BootRequestRejected ==
    /\ Failed("boot_request_upgrade")
    /\ pc = "returned"
    /\ Len(rets) = 5

\* C12: no read or erase call opens a flash area while a handle opened by an
\* earlier read or erase call is still open: the component holds at most one
\* open handle at any time.
NoOverlappingHandles ==
    /\ handles <= 1
    /\ (call.op \in {"read", "erase"} /\ call.opens = 1) =>
           handles - (call.opens - call.closes) = 0

\* C13: the cursors change only in a seek call: read, write and erase (and
\* every other step) leave source_offset and patch_offset as they were.
CursorsChangeOnlyBySeek ==
    [][(source' # source \/ patch' # patch) =>
           (call'.op = "seek" /\ call'.before = <<source, patch>>)]_vars

ReadLeftCursorsAlone ==
    /\ call.op = "read"
    /\ call.ret = 0
    /\ call.slot = SLOT_0
    /\ call.before = <<0, 1>>
    /\ source = 0
    /\ patch = 1

\* C14 (as stated): while the backend runs, neither cursor ever takes a value
\* smaller than one it held before.
CursorsNeverDecrease ==
    [][pc = "in_patch" => (source' >= source /\ patch' >= patch)]_vars

\* C14 (amended): a cursor takes a smaller value only in a seek call, and it
\* then holds exactly the offset that call passed for its stream.
CursorsDecreaseOnlyBySeek ==
    [][(source' < source \/ patch' < patch) =>
           /\ call'.op = "seek"
           /\ source' = last_seek'[1]
           /\ patch' = last_seek'[2]]_vars

BackwardSeekSeen ==
    /\ pc = "in_patch"
    /\ call.op = "seek"
    /\ call.before = <<1, 1>>
    /\ source = 0
    /\ patch = 1

\* the orchestrator's part of error propagation: main returns the code of
\* the first stage that failed, and nothing was called after that stage
MainReturnsFirstFailure ==
    pc = "returned" =>
        /\ Len(rets) = Len(calls)
        /\ Len(rets) >= 1
        /\ ret = rets[Len(rets)]
        /\ ret # 0
        /\ \A j \in 1..(Len(rets) - 1) : rets[j] = 0

\* C15 (as stated): a primitive returns the nonzero code the failing flash
\* call reported, and main returns the code of the first failing stage.
ErrorsPropagateUnchanged ==
    /\ OpenFailed => call.ret = call.openRet
    /\ call.ioRet # 0 => call.ret = call.ioRet
    /\ MainReturnsFirstFailure

\* C15 (amended): a primitive returns -ENODEV when the open fails and -EINVAL
\* when the flash read, write or erase fails, whatever code was reported;
\* main returns the code of the first failing stage unchanged.
ErrorsMappedThenPropagated ==
    /\ OpenFailed => call.ret = -ENODEV
    /\ call.ioRet # 0 => call.ret = -EINVAL
    /\ (call.op \in {"read", "write", "erase"} /\ call.openRet = 0 /\ call.ioRet = 0)
           => call.ret = 0
    /\ MainReturnsFirstFailure

WriteFaultThenPatchFailure ==
    /\ call.op = "write"
    /\ call.ioRet = -EIO
    /\ pc = "returned"
    /\ ret = -EIO
    /\ Failed("patch")

\* C16: at the point where the backend's patch entry point is invoked, both
\* cursors are zero and the last primitive call was the seek(0, 0) of
\* delta_apply_init.
CursorsZeroAtPatch ==
    pc = "algo_patch" => /\ source = 0
                         /\ patch = 0
                         /\ call.op = "seek"
                         /\ last_seek = <<0, 0>>

CursorsResetBeforePatch ==
    /\ pc = "algo_patch"
    /\ call.op = "seek"
    /\ call.before = <<1, 1>>

\* a step in which seek was called
SeekStep == last_seek' # last_seek \/ (call'.op = "seek" /\ call' # call)

\* C17: seek(s, p) returns 0, sets source_offset to s and patch_offset to p
\* whatever they were, and does no I/O: no open, close, read, write or erase,
\* flash contents and writer state unchanged.
SeekOnlySetsCursors ==
    [][SeekStep => /\ call'.op = "seek"
                   /\ call'.ret = 0
                   /\ source' = last_seek'[1]
                   /\ patch' = last_seek'[2]
                   /\ call'.opens = 0
                   /\ call'.closes = 0
                   /\ call'.io = "none"
                   /\ UNCHANGED <<flash, img_ctx, handles, slot>>]_vars

SeekOverOldValues ==
    /\ pc = "in_patch"
    /\ call.op = "seek"
    /\ call.before = <<0, 1>>
    /\ last_seek = <<1, 0>>
    /\ flash[DESTINATION] = "programmed"

\* C18: flash_img_init is called exactly once per attempt, first of all
\* calls; every write call comes after it returned 0; a write call opens and
\* closes nothing and leaves the writer initialised.
WriterInitialisedOnce ==
    /\ Count("flash_img_init") <= 1
    /\ pc # "init_img" => (Count("flash_img_init") = 1 /\ calls[1].fn = "flash_img_init")
    /\ Count("delta_apply_patch_init") > 0 => rets[1] = 0
    /\ img_ctx # "uninit" <=> (Len(rets) >= 1 /\ rets[1] = 0)
    /\ call.op = "write" => /\ rets[1] = 0
                            /\ img_ctx # "uninit"
                            /\ call.opens = 0
                            /\ call.closes = 0
                            /\ call.ioArea = DESTINATION
                            /\ call.ret = 0 => img_ctx = "written"

WriteAfterInit ==
    /\ call.op = "write"
    /\ call.ret = 0
    /\ pc = "in_patch"
    /\ flash[DESTINATION] = "image"

\* C19: a successful read that directly follows a successful read with the
\* same selector and size (no seek, write or erase in between) returns the
\* same bytes.
ConsecutiveReadsAgree ==
    [][(/\ call.op = "read" /\ call.ret = 0
        /\ call'.op = "read" /\ call'.ret = 0
        /\ call'.slot = call.slot
        /\ call'.size = call.size) => call'.buf = call.buf]_vars

RereadSeen ==
    /\ call.op = "read"
    /\ call.ret = 0
    /\ call.again
    /\ call.slot = PATCH
    /\ call.ioOffset = 1
    /\ call.buf = <<17>>

Terminal == pc \in {"returned", "rebooted"}

\* C20: every apply attempt ends: main returns or the cold reboot is
\* triggered.
AttemptTerminates == <>Terminal

RegistrationRejected ==
    /\ Terminal
    /\ Failed("delta_apply_patch_init")

====
